---- MODULE Spec2Model ----
(***************************************************************************)
(* LinkedIn Posts MCP: the news fetch fallback chain, the three-step       *)
(* pipeline (fetch, generate, output), the publishing step, the UI         *)
(* wrappers, the web UI's handlers and background thread under concurrent  *)
(* requests, and the saving of the access token to .env, as state machines.*)
(*                                                                         *)
(* Conventions.  A Python string that the code inspects character by       *)
(* character (an article title) is a sequence of one-character strings;    *)
(* every other string is a TLA+ string.  Python's None is NoneVal.  A JSON *)
(* value is a record with a "kind" field.  A dict with optional keys is a  *)
(* record whose DOMAIN holds the keys that are present.                    *)
(***************************************************************************)
EXTENDS Naturals, Sequences, FiniteSets

(***************************************************************************)
(* Bounds of the model and constants of the program.                       *)
(***************************************************************************)
\* articles one scraped Medium page yields at most (the code allows PageLimit)
MaxFound == 2
\* search_ai_articles(max_results=3)
MaxResults == 3
\* the five tag pages of search_urls
NumUrls == 5
\* elements[:5]
PageLimit == 5
\* articles[:2]
McpTop == 2
\* response.status_code == 201
Created == 201
\* symbols a previous .env holds at most
MaxFileLen == 4

Min(a, b) == IF a < b THEN a ELSE b

Take(s, n) == SubSeq(s, 1, Min(n, Len(s)))

BoundedSeq(S, n) == UNION {[1..k -> S] : k \in 0..n}

Range(s) == {s[i] : i \in DOMAIN s}

(***************************************************************************)
(* Strings the code looks into: str.lower() and str.strip().               *)
(***************************************************************************)
\* str.lower() on one character
LowerChar(c) ==
    CASE c = "A" -> "a"
      [] c = "I" -> "i"
      [] c = "M" -> "m"
      [] c = "L" -> "l"
      [] c = "R" -> "r"
      [] c = "D" -> "d"
      [] OTHER -> c

\* str.lower()
Lower(s) == [i \in DOMAIN s |-> LowerChar(s[i])]

RECURSIVE LStrip(_)
LStrip(s) == IF s # <<>> /\ Head(s) = " " THEN LStrip(Tail(s)) ELSE s

RECURSIVE RStrip(_)
RStrip(s) ==
    IF s # <<>> /\ s[Len(s)] = " " THEN RStrip(SubSeq(s, 1, Len(s) - 1)) ELSE s

\* str.strip()
Strip(s) == RStrip(LStrip(s))

(***************************************************************************)
(* Articles.  An article is a dict with the keys 'title', 'summary' and    *)
(* 'url', any of which a parsed MCP reply may leave out.                   *)
(***************************************************************************)
TitleAI == <<"A", "I">>
TitleAi == <<"a", "i">>
TitleML == <<"M", "L">>
RecentTitle ==
    <<"R", "e", "c", "e", "n", "t", " ", "A", "I", " ",
      "D", "e", "v", "e", "l", "o", "p", "m", "e", "n", "t", "s">>

\* What _extract_article_data can return for the elements of a tag page: the
\* title is get_text(strip=True), so it is never empty and has no outer blanks.
Corpus ==
    { [title |-> TitleAI, summary |-> "s1", url |-> "https://medium.com/1"],
      [title |-> TitleAi, summary |-> "s2", url |-> "https://medium.com/2"],
      [title |-> TitleAI, summary |-> "s3", url |-> "https://medium.com/3"],
      [title |-> TitleML, summary |-> "s4", url |-> "https://medium.com/4"] }

\* article.get('title', '')
TitleOf(article) == IF "title" \in DOMAIN article THEN article.title ELSE <<>>

\* article.get('url', '')
UrlOf(article) == IF "url" \in DOMAIN article THEN article.url ELSE ""

\* the key _remove_duplicates compares: article.get('title', '').lower().strip()
TitleKey(article) == Strip(Lower(TitleOf(article)))

\* a de-duplication that keeps every article with a title
KeepsAnyTitled(title, seen_titles) == title # <<>>

\* the condition under which _remove_duplicates keeps an article
KeepsArticle(title, seen_titles) == title # <<>> /\ title \notin seen_titles

RECURSIVE DedupFrom(_, _, _, _)
DedupFrom(articles, k, seen_titles, unique_articles) ==
    IF k > Len(articles) THEN unique_articles
    ELSE LET title == TitleKey(articles[k])
         IN  IF KeepsArticle(title, seen_titles)
             THEN DedupFrom(articles, k + 1, seen_titles \cup {title},
                            Append(unique_articles, articles[k]))
             ELSE DedupFrom(articles, k + 1, seen_titles, unique_articles)

\* MediumScraper._remove_duplicates
RemoveDuplicates(articles) == DedupFrom(articles, 1, {}, <<>>)

(***************************************************************************)
(* What one scraped tag page can do: the request or raise_for_status       *)
(* raises, or _parse_medium_articles returns at most PageLimit articles.   *)
(***************************************************************************)
PageResults(corpus) ==
    {[ok |-> FALSE, found |-> <<>>]}
    \cup {[ok |-> TRUE, found |-> f] : f \in BoundedSeq(corpus, Min(MaxFound, PageLimit))}

(***************************************************************************)
(* The MCP server command.  Its standard output, when it is JSON with      *)
(* result.content, is a text whose lines _parse_mcp_news_response sorts by *)
(* their prefix: a line is modelled by the prefix it starts with and the   *)
(* text after the first colon.                                             *)
(***************************************************************************)
McpText1 == << [k |-> "Title", title |-> TitleML],
               [k |-> "Summary", text |-> "s"],
               [k |-> "URL", text |-> "https://news/1"] >>
McpText2 == << [k |-> "other", text |-> "no news today"] >>
McpText3 == << [k |-> "Summary", text |-> "s"],
               [k |-> "Title", title |-> TitleAI],
               [k |-> "http", text |-> "https://news/2"] >>
McpText4 == << [k |-> "Title", title |-> TitleAI],
               [k |-> "Title", title |-> TitleML],
               [k |-> "Title", title |-> TitleAi] >>

\* current_article as a dict: the keys in "has", with their values
AsDict(st) == [f \in st.has |-> st.current_article[f]]

\* the loop body of _parse_mcp_news_response on one line; st holds articles
\* and current_article (the keys it has, and a value for each key)
McpLine(line, st) ==
    CASE line.k = "Title" ->
           [articles |-> IF st.has # {} THEN Append(st.articles, AsDict(st))
                                        ELSE st.articles,
            current_article |-> [title |-> line.title, summary |-> "", url |-> ""],
            has |-> {"title"}]
      [] line.k = "Summary" ->
           [st EXCEPT !.current_article.summary = line.text,
                      !.has = st.has \cup {"summary"}]
      [] line.k = "URL" ->
           [st EXCEPT !.current_article.url = line.text,
                      !.has = st.has \cup {"url"}]
      [] line.k = "http" /\ "url" \notin st.has ->
           [st EXCEPT !.current_article.url = line.text,
                      !.has = st.has \cup {"url"}]
      [] OTHER -> st

RECURSIVE McpLines(_, _, _)
McpLines(lines, k, st) ==
    IF k > Len(lines) THEN st ELSE McpLines(lines, k + 1, McpLine(lines[k], st))

\* NewsFetcher._parse_mcp_news_response(content); a content that is not a
\* string has no split(): the method's own except returns []
ParseMcpNewsResponse(content) ==
    IF content.kind # "str" THEN <<>>
    ELSE LET st == McpLines(content.lines, 1,
                            [articles |-> <<>>,
                             current_article |-> [title |-> <<>>, summary |-> "", url |-> ""],
                             has |-> {}])
             articles == IF "title" \in st.has THEN Append(st.articles, AsDict(st))
                                               ELSE st.articles
         IN  Take(articles, McpTop)

\* What subprocess.run of the MCP server command can do.
McpOutcomes ==
    { [how |-> "TimeoutExpired"], [how |-> "FileNotFoundError"],
      [how |-> "PermissionError"],
      [how |-> "exit", returncode |-> 1, stdout |-> [kind |-> "text"]],
      [how |-> "exit", returncode |-> 0, stdout |-> [kind |-> "text"]],
      [how |-> "exit", returncode |-> 0, stdout |-> [kind |-> "json", result |-> FALSE]],
      [how |-> "exit", returncode |-> 0,
       stdout |-> [kind |-> "json", result |-> TRUE, content |-> [kind |-> "list"]]] }
    \cup { [how |-> "exit", returncode |-> 0,
            stdout |-> [kind |-> "json", result |-> TRUE,
                        content |-> [kind |-> "str", lines |-> t]]]
           : t \in {McpText1, McpText2, McpText3, McpText4} }

\* search_news_with_mcp, lines 214-236: TRUE when control reaches the OpenAI
\* fallback of line 239 (a listed exception, a non-zero exit code, or a JSON
\* reply without result.content)
McpFallsBack(o) ==
    \/ o.how \in {"TimeoutExpired", "FileNotFoundError"}
    \/ /\ o.how = "exit"
       /\ \/ o.returncode # 0
          \/ o.stdout.kind = "text"
          \/ o.stdout.kind = "json" /\ ~o.stdout.result

\* search_news_with_mcp when it does not fall back: the parsed reply (line
\* 232), or [] from the outer except (line 243) for any other exception
McpReturn(o) ==
    IF o.how = "exit" THEN ParseMcpNewsResponse(o.stdout.content) ELSE <<>>

(***************************************************************************)
(* The LLM-based search.  A reply is a text that is not JSON or a JSON     *)
(* value; a text is short enough (at most 200 characters) to be kept whole.*)
(***************************************************************************)
LlmArticle == [title |-> TitleAI, summary |-> "s5", url |-> "N/A"]

LlmSearchOutcomes ==
    { [how |-> "raise"],
      [how |-> "reply", content |-> [kind |-> "text", text |-> "Some AI news"]],
      [how |-> "reply", content |-> [kind |-> "json", value |-> [kind |-> "list"]]],
      [how |-> "reply", content |-> [kind |-> "json", value |-> [kind |-> "dict"]]],
      [how |-> "reply", content |->
          [kind |-> "json", value |-> [kind |-> "dict", articles |-> <<>>]]],
      [how |-> "reply", content |->
          [kind |-> "json", value |-> [kind |-> "dict", articles |-> <<LlmArticle>>]]] }

\* NewsFetcher._search_news_with_openai
SearchNewsWithOpenai(o) ==
    CASE o.how = "raise" -> <<>>
      [] o.how = "reply" /\ o.content.kind = "text" ->
           << [title |-> RecentTitle, summary |-> o.content.text, url |-> "N/A"] >>
      [] o.how = "reply" /\ o.content.kind = "json" ->
           LET data == o.content.value
           IN  IF data.kind # "dict" THEN <<>>
               ELSE IF "articles" \in DOMAIN data THEN data.articles ELSE <<>>

(***************************************************************************)
(* Posts.  The value generate_post returns is None or whatever JSON value  *)
(* the LLM's reply parses to.  A field of a post is a JSON string or       *)
(* number: [t |-> "str" or "num", s |-> its text].                         *)
(***************************************************************************)
NoneVal == [kind |-> "none"]

Str(s) == [t |-> "str", s |-> s]

Num(s) == [t |-> "num", s |-> s]

PostFields == {"title", "post_body_en", "post_body_es", "link"}

PostFull ==
    [kind |-> "dict", title |-> Str("T"), post_body_en |-> Str("EN"),
     post_body_es |-> Str("ES"), link |-> Str("https://news/1")]
PostNoSpanish ==
    [kind |-> "dict", title |-> Str("T"), post_body_en |-> Str("EN"),
     link |-> Str("https://news/1")]
PostOdd ==
    [kind |-> "dict", post_body_en |-> Num("5"), post_body_es |-> Str("ES"),
     link |-> Str("N/A")]
PostBlankSpanish ==
    [kind |-> "dict", title |-> Str("T"), post_body_en |-> Str("EN"),
     post_body_es |-> Str(""), link |-> Str("")]
PostEmpty == [kind |-> "dict"]
PostList == [kind |-> "list", len |-> 1]

GenOutcomes ==
    { [how |-> "raise"],
      [how |-> "reply", content |-> [kind |-> "text", text |-> "Here is your post"]] }
    \cup { [how |-> "reply", content |-> [kind |-> "json", value |-> v]]
           : v \in {PostFull, PostNoSpanish, PostOdd, PostBlankSpanish, PostEmpty, PostList} }

\* Python's truth value of a post field
FieldTruthy(f) == IF f.t = "str" THEN f.s # "" ELSE f.s # "0"

\* Python's truth value of what generate_post returned
Truthy(v) ==
    CASE v.kind = "none" -> FALSE
      [] v.kind = "dict" -> DOMAIN v # {"kind"}
      [] v.kind = "list" -> v.len > 0

\* the dict generate_post builds from a reply that is not JSON
RawContentPost(articles, content) ==
    [kind |-> "dict", title |-> Str("AI News Update"), post_body_en |-> Str(content.text),
     post_body_es |-> Str("Error: Could not parse Spanish version"),
     link |-> Str(UrlOf(articles[1]))]

\* LinkedInPostGenerator.generate_post: its return value
GeneratePost(articles, o) ==
    IF articles = <<>> THEN NoneVal
    ELSE CASE o.how = "raise" -> NoneVal
           [] o.how = "reply" /\ o.content.kind = "json" -> o.content.value
           [] o.how = "reply" /\ o.content.kind = "text" ->
                RawContentPost(articles, o.content)

\* generate_post sends a request to the LLM only past its guard on articles
GenerateCalls(articles) == IF articles = <<>> THEN 0 ELSE 1

(***************************************************************************)
(* State.                                                                  *)
(***************************************************************************)
VARIABLES
    corpus,           \* the articles the Medium tag pages can show
    env_token,        \* LINKEDIN_ACCESS_TOKEN is set (and not empty)
    env_company,      \* LINKEDIN_COMPANY_ID is set (and not empty)
    caller,           \* who called LinkedInMCP.run: "pipeline" or "gui"
    pc,               \* position of the main thread of control
    url_i,            \* search_ai_articles: index of the next url of search_urls
    med_articles,     \* search_ai_articles: articles
    unique_articles,  \* search_ai_articles: unique_articles
    requests,         \* requests sent to each tag url in this fetch
    mcp_runs,         \* runs of the MCP server command in this fetch
    llm_searches,     \* LLM search requests sent in this fetch
    consulted,        \* the sources consulted in this fetch, in order
    yielded,          \* what each source yielded in this fetch
    articles,         \* run: articles
    post_data,        \* run: post_data
    result,           \* what run returned: [how |-> "return", value] or "raise"
    steps,            \* the steps run has started, in order
    gen_calls,        \* post-generation requests sent to the LLM in this run
    post_file,        \* linkedin_post.json: NoneVal (not written) or the post in it
    choice,           \* main: choice, the stripped input ("?" before the prompt)
    attempts,         \* the calls of post_to_company_page so far, in order
    results,          \* post_both_languages: results, the keys set so far
    exit_code,        \* how the process ended: "running", "0", "1" or "uncaught"
    env_openai,       \* OPENAI_API_KEY is set (and not empty)
    gui_post_data,    \* desktop GUI: self.current_post_data
    gui_status,       \* desktop GUI: the text of status_label
    current_post_data,    \* web UI: the global of that name
    generation_status,    \* web UI: the global of that name
    generation_message,   \* web UI: the global of that name
    generation_progress,  \* web UI: the global of that name
    reqPc,            \* web UI: position of each request being handled
    reqResp,          \* web UI: the last response each handler gave
    webPc,            \* web UI: position of each generate_post_async thread
    webArticles,      \* generate_post_async: articles, per thread
    webPost,          \* generate_post_async: post_data, per thread
    webSteps,         \* the steps each generate_post_async thread has started
    services,         \* what the MCP command, the LLM search and the LLM can answer
    reqKinds,         \* web UI: the requests each client sends
    reqSeen,          \* web UI: the globals a handler has read for its answer
    env_file,         \* .env: whether it exists, and its text
    env_before,       \* .env as it was when the credential-saving step began
    env_content,      \* linkedin_auth.main: env_content
    updated,          \* linkedin_auth.main: updated
    auth_i,           \* linkedin_auth.main: i, the index of the loop over env_content
    auth_pc           \* linkedin_auth.main: position in the credential-saving step

fetchVars == <<url_i, med_articles, unique_articles, requests, mcp_runs,
               llm_searches, consulted, yielded>>
runVars == <<articles, post_data, result, steps, gen_calls, post_file>>
worldVars == <<corpus, env_token, env_company, caller, services>>
mainVars == <<choice, attempts, results, exit_code>>
guiVars == <<gui_post_data, gui_status>>
webGlobals == <<current_post_data, generation_status, generation_message,
                generation_progress>>
webVars == <<webGlobals, reqPc, reqResp, webPc, webArticles, webPost, webSteps>>
uiVars == <<env_openai, guiVars, webVars>>
pollVars == <<reqKinds, reqSeen>>
authVars == <<env_file, env_before, env_content, updated, auth_i, auth_pc>>
sideVars == <<pollVars, authVars>>
threadVars == <<webPc, webArticles, webPost, webSteps>>
offWebVars == <<env_openai, guiVars, pc, fetchVars, runVars, worldVars, mainVars, authVars>>

Sources == {"medium", "mcp", "llm"}

Running == [how |-> "running"]

Returned(v) == [how |-> "return", value |-> v]

Raised == [how |-> "raise"]

InitRun ==
    /\ url_i = 0
    /\ med_articles = <<>>
    /\ unique_articles = <<>>
    /\ requests = [u \in 1..NumUrls |-> 0]
    /\ mcp_runs = 0
    /\ llm_searches = 0
    /\ consulted = <<>>
    /\ yielded = [s \in Sources |-> <<>>]
    /\ articles = <<>>
    /\ post_data = NoneVal
    /\ result = Running
    /\ steps = <<>>
    /\ gen_calls = 0
    /\ post_file = NoneVal

InitMain ==
    /\ choice = <<"?">>
    /\ attempts = <<>>
    /\ results = NoneVal
    /\ exit_code = "running"

\* what a handler holds before it has read any global
NothingSeen == [status |-> "", message |-> "", progress |-> 0, post |-> NoneVal]

\* linkedin_web_ui_alt.py lines 26-29; the clients of the web server send the
\* requests of kinds, its threads are those of the set given
InitWeb(kinds, threads) ==
    /\ current_post_data = NoneVal
    /\ generation_status = "ready"
    /\ generation_message = "Ready to generate posts"
    /\ generation_progress = 0
    /\ reqKinds = kinds
    /\ reqPc = [q \in DOMAIN kinds |-> "idle"]
    /\ reqResp = [q \in DOMAIN kinds |-> "none"]
    /\ reqSeen = [q \in DOMAIN kinds |-> NothingSeen]
    /\ webPc = [t \in threads |-> "idle"]
    /\ webArticles = [t \in threads |-> <<>>]
    /\ webPost = [t \in threads |-> NoneVal]
    /\ webSteps = [t \in threads |-> <<>>]

\* linkedin_ui.py lines 40 and 74, and the web server with the clients of the
\* set given, each sending /api/generate requests only
InitUi(slots) ==
    /\ gui_post_data = NoneVal
    /\ gui_status = "Ready to generate posts"
    /\ InitWeb([q \in slots |-> {"generate"}], slots)

\* every answer the model has for the MCP command, the LLM search and the LLM
AllServices ==
    [mcp |-> McpOutcomes, search |-> LlmSearchOutcomes, gen |-> GenOutcomes]

\* linkedin_auth.main is not running
InitAuthOff ==
    /\ env_file = [exists |-> FALSE, text |-> <<>>]
    /\ env_before = env_file
    /\ env_content = <<>>
    /\ updated = FALSE
    /\ auth_i = 0
    /\ auth_pc = "off"

(***************************************************************************)
(* NewsFetcher.fetch_latest_news, entered from run.                        *)
(***************************************************************************)
\* run, step 1: the call of fetch_latest_news, which calls search_ai_articles
RunFetch ==
    /\ pc = "run"
    /\ pc' = "medium_get"
    /\ steps' = Append(steps, "fetch")
    /\ consulted' = Append(consulted, "medium")
    /\ url_i' = 1
    /\ med_articles' = <<>>
    /\ UNCHANGED <<unique_articles, requests, mcp_runs, llm_searches, yielded,
                   articles, post_data, result, gen_calls, post_file>>
    /\ UNCHANGED <<worldVars, sideVars>>
    /\ UNCHANGED mainVars
    /\ UNCHANGED uiVars

\* a loop that asks for the same page again after an exception
RetryUrlAfterError(i) == i

\* the url the loop of search_ai_articles goes on with after an exception
NextUrlAfterError(i) == i + 1

\* search_ai_articles: whether the loop stops after this page
LoopStops(i, found_so_far) == Len(found_so_far) >= MaxResults \/ i >= NumUrls

\* search_ai_articles: one pass of the loop over search_urls
MediumGet ==
    /\ pc = "medium_get"
    /\ url_i <= NumUrls
    /\ \E r \in PageResults(corpus) :
         /\ requests' = [requests EXCEPT ![url_i] = @ + 1]
         /\ IF r.ok
            THEN /\ med_articles' = med_articles \o r.found
                 /\ url_i' = url_i + 1
                 /\ pc' = IF LoopStops(url_i, med_articles') THEN "medium_done"
                                                              ELSE "medium_get"
            ELSE /\ med_articles' = med_articles
                 /\ url_i' = NextUrlAfterError(url_i)
                 /\ pc' = IF url_i' > NumUrls THEN "medium_done" ELSE "medium_get"
    /\ UNCHANGED <<unique_articles, mcp_runs, llm_searches, consulted, yielded>>
    /\ UNCHANGED runVars
    /\ UNCHANGED <<worldVars, sideVars>>
    /\ UNCHANGED mainVars
    /\ UNCHANGED uiVars

\* search_ai_articles: after the loop, de-duplicate, cut and return
MediumReturn ==
    /\ pc = "medium_done"
    /\ unique_articles' = RemoveDuplicates(med_articles)
    /\ articles' = Take(unique_articles', MaxResults)
    /\ yielded' = [yielded EXCEPT !["medium"] = articles']
    /\ pc' = "fetch_check"
    /\ UNCHANGED <<url_i, med_articles, requests, mcp_runs, llm_searches, consulted>>
    /\ UNCHANGED <<post_data, result, steps, gen_calls, post_file>>
    /\ UNCHANGED <<worldVars, sideVars>>
    /\ UNCHANGED mainVars
    /\ UNCHANGED uiVars

\* a fetch that is content with Medium only when it gave a full list
MediumSufficesWhenFull(found) == Len(found) >= MaxResults

\* fetch_latest_news, line 342, "if articles:": Medium's articles are returned
MediumSuffices(found) == found # <<>>

\* fetch_latest_news: return the Medium articles, or go on to the MCP fallback
FetchCheck ==
    /\ pc = "fetch_check"
    /\ pc' = IF MediumSuffices(articles) THEN "run_check_articles" ELSE "mcp_run"
    /\ url_i' = 0
    /\ med_articles' = <<>>
    /\ unique_articles' = <<>>
    /\ UNCHANGED <<requests, mcp_runs, llm_searches, consulted, yielded>>
    /\ UNCHANGED runVars
    /\ UNCHANGED <<worldVars, sideVars>>
    /\ UNCHANGED mainVars
    /\ UNCHANGED uiVars

\* search_news_with_mcp: run the MCP server command
McpRun ==
    /\ pc = "mcp_run"
    /\ mcp_runs' = mcp_runs + 1
    /\ consulted' = Append(consulted, "mcp")
    /\ \E o \in services.mcp :
         IF McpFallsBack(o)
         THEN /\ pc' = "llm_search"
              /\ UNCHANGED <<articles, yielded>>
         ELSE /\ pc' = "fetch_return"
              /\ articles' = McpReturn(o)
              /\ yielded' = [yielded EXCEPT !["mcp"] = articles']
    /\ UNCHANGED <<url_i, med_articles, unique_articles, requests, llm_searches>>
    /\ UNCHANGED <<post_data, result, steps, gen_calls, post_file>>
    /\ UNCHANGED <<worldVars, sideVars>>
    /\ UNCHANGED mainVars
    /\ UNCHANGED uiVars

\* search_news_with_mcp, line 239: _search_news_with_openai
LlmSearch ==
    /\ pc = "llm_search"
    /\ llm_searches' = llm_searches + 1
    /\ consulted' = Append(consulted, "llm")
    /\ \E o \in services.search :
         /\ articles' = SearchNewsWithOpenai(o)
         /\ yielded' = [yielded EXCEPT !["llm"] = articles']
    /\ pc' = "fetch_return"
    /\ UNCHANGED <<url_i, med_articles, unique_articles, requests, mcp_runs>>
    /\ UNCHANGED <<post_data, result, steps, gen_calls, post_file>>
    /\ UNCHANGED <<worldVars, sideVars>>
    /\ UNCHANGED mainVars
    /\ UNCHANGED uiVars

\* fetch_latest_news, lines 350-355: return what the fallback gave, empty or not
FetchReturn ==
    /\ pc = "fetch_return"
    /\ pc' = "run_check_articles"
    /\ UNCHANGED fetchVars
    /\ UNCHANGED runVars
    /\ UNCHANGED <<worldVars, sideVars>>
    /\ UNCHANGED mainVars
    /\ UNCHANGED uiVars

(***************************************************************************)
(* LinkedInMCP.run after the fetch, and output_results.                    *)
(***************************************************************************)
\* where control goes when run is over, by its caller
AfterRun == IF caller = "pipeline" THEN "main_check_post" ELSE "gui_after_run"

\* run, lines 473-475: no articles, return None
RunCheckArticles ==
    /\ pc = "run_check_articles"
    /\ IF articles = <<>>
       THEN /\ result' = Returned(NoneVal)
            /\ pc' = AfterRun
       ELSE /\ result' = result
            /\ pc' = "run_generate"
    /\ UNCHANGED <<articles, post_data, steps, gen_calls, post_file>>
    /\ UNCHANGED <<fetchVars, worldVars, sideVars, mainVars, uiVars>>

\* run, step 2: post_data = generate_post(articles)
RunGenerate ==
    /\ pc = "run_generate"
    /\ steps' = Append(steps, "generate")
    /\ gen_calls' = gen_calls + GenerateCalls(articles)
    /\ \E o \in services.gen : post_data' = GeneratePost(articles, o)
    /\ pc' = "run_check_post"
    /\ UNCHANGED <<articles, result, post_file>>
    /\ UNCHANGED <<fetchVars, worldVars, sideVars, mainVars, uiVars>>

\* run, lines 479-481: no post, return None
RunCheckPost ==
    /\ pc = "run_check_post"
    /\ IF ~Truthy(post_data)
       THEN /\ result' = Returned(NoneVal)
            /\ pc' = AfterRun
       ELSE /\ result' = result
            /\ pc' = "run_output"
    /\ UNCHANGED <<articles, post_data, steps, gen_calls, post_file>>
    /\ UNCHANGED <<fetchVars, worldVars, sideVars, mainVars, uiVars>>

\* output_results prints post_data.get(...) first: only a dict has get()
OutputRaises(post) == post.kind # "dict"

\* what output_results leaves in linkedin_post.json when open() and
\* json.dump() succeed (saved) or raise (the except only prints)
SavedFile(post, old, saved) == IF saved THEN post ELSE old

\* run, step 3: output_results(post_data), then return post_data
RunOutput ==
    /\ pc = "run_output"
    /\ steps' = Append(steps, "output")
    /\ IF OutputRaises(post_data)
       THEN /\ result' = Raised
            /\ post_file' = post_file
            /\ pc' = IF caller = "pipeline" THEN "main_uncaught" ELSE "gui_except"
       ELSE /\ \E saved \in BOOLEAN : post_file' = SavedFile(post_data, post_file, saved)
            /\ result' = Returned(post_data)
            /\ pc' = AfterRun
    /\ UNCHANGED <<articles, post_data, gen_calls>>
    /\ UNCHANGED <<fetchVars, worldVars, sideVars, mainVars, uiVars>>

(***************************************************************************)
(* LinkedInPoster.post_to_company_page and post_both_languages.            *)
(***************************************************************************)
\* what requests.post can do: a response with a status code, or an exception
HttpOutcomes ==
    { [how |-> "status", code |-> 201], [how |-> "status", code |-> 200],
      [how |-> "status", code |-> 401],
      [how |-> "raise", exc |-> "Timeout"], [how |-> "raise", exc |-> "ConnectionError"] }

\* lines 45-48: the post body for a language
PostText(post, language) ==
    IF language = "es" /\ "post_body_es" \in DOMAIN post THEN post.post_body_es
    ELSE IF "post_body_en" \in DOMAIN post THEN post.post_body_en
    ELSE Str("")

\* the body of the try of post_to_company_page: what it does with a post, a
\* language and what requests.post will answer.  sent: the request went out.
PostBody(post, language, http) ==
    IF post.kind # "dict"
    THEN [how |-> "raise", exc |-> "AttributeError", sent |-> FALSE]
    ELSE LET post_text == PostText(post, language)
         IN  IF ~FieldTruthy(post_text)
             THEN [how |-> "return", value |-> FALSE, sent |-> FALSE]
             ELSE IF post_text.t # "str"
             THEN [how |-> "raise", exc |-> "TypeError", sent |-> FALSE]
             ELSE IF http.how = "raise"
             THEN [how |-> "raise", exc |-> http.exc, sent |-> TRUE]
             ELSE [how |-> "return", value |-> (http.code = Created), sent |-> TRUE]

\* a handler that catches the errors of the request only
CatchesRequestErrors(exc) == exc \in {"Timeout", "ConnectionError"}

\* line 111, "except Exception": the exceptions the handler catches
Catches(exc) == TRUE

\* LinkedInPoster.post_to_company_page
PostToCompanyPage(post, language, http) ==
    LET b == PostBody(post, language, http)
    IN  IF b.how = "return"
        THEN [how |-> "return", value |-> b.value, sent |-> b.sent, caught |-> "none"]
        ELSE IF Catches(b.exc)
        THEN [how |-> "return", value |-> FALSE, sent |-> b.sent, caught |-> b.exc]
        ELSE [how |-> "raise", value |-> FALSE, sent |-> b.sent, caught |-> "none"]

\* one call, as the log keeps it
Attempt(post, language, http) ==
    LET r == PostToCompanyPage(post, language, http)
    IN  [language |-> language, sent |-> r.sent,
         http |-> IF r.sent THEN http ELSE [how |-> "none"],
         caught |-> r.caught,
         outcome |-> IF r.how = "raise" THEN "raised"
                     ELSE IF r.value THEN "True" ELSE "False"]

\* d[k] = v on a dict
DictSet(d, k, v) == [x \in DOMAIN d \cup {k} |-> IF x = k THEN v ELSE d[x]]

(***************************************************************************)
(* post_to_linkedin.main after mcp.run().                                  *)
(***************************************************************************)
\* what input() can do: a line, Ctrl-C, or end of input
InputOutcomes ==
    { [how |-> "line", raw |-> r] :
        r \in { <<"1">>, <<"2">>, <<"3">>, <<"4">>, <<"5">>, <<>>,
                <<" ", "3", " ">>, <<"1", "2">> } }
    \cup { [how |-> "KeyboardInterrupt"], [how |-> "EOFError"] }

\* main's post_data: what run returned
MainPost == result.value

\* main, line 22: nothing catches what run raises
MainUncaught ==
    /\ pc = "main_uncaught"
    /\ pc' = "exit"
    /\ exit_code' = "uncaught"
    /\ UNCHANGED <<choice, attempts, results>>
    /\ UNCHANGED <<fetchVars, runVars, worldVars, sideVars, uiVars>>

\* main, lines 24-28
MainCheckPost ==
    /\ pc = "main_check_post"
    /\ IF ~Truthy(MainPost)
       THEN pc' = "exit" /\ exit_code' = "1"
       ELSE pc' = "main_token" /\ exit_code' = exit_code
    /\ UNCHANGED <<choice, attempts, results>>
    /\ UNCHANGED <<fetchVars, runVars, worldVars, sideVars, uiVars>>

\* main, lines 34-38
MainCheckToken ==
    /\ pc = "main_token"
    /\ IF ~env_token
       THEN pc' = "exit" /\ exit_code' = "0"
       ELSE pc' = "main_company" /\ exit_code' = exit_code
    /\ UNCHANGED <<choice, attempts, results>>
    /\ UNCHANGED <<fetchVars, runVars, worldVars, sideVars, uiVars>>

\* main, lines 40-44
MainCheckCompany ==
    /\ pc = "main_company"
    /\ IF ~env_company
       THEN pc' = "exit" /\ exit_code' = "0"
       ELSE pc' = "main_poster" /\ exit_code' = exit_code
    /\ UNCHANGED <<choice, attempts, results>>
    /\ UNCHANGED <<fetchVars, runVars, worldVars, sideVars, uiVars>>

\* main, lines 47-52, and LinkedInPoster.__init__, which reads both again
MainInitPoster ==
    /\ pc = "main_poster"
    /\ IF ~env_token \/ ~env_company
       THEN pc' = "exit" /\ exit_code' = "1"
       ELSE pc' = "main_input" /\ exit_code' = exit_code
    /\ UNCHANGED <<choice, attempts, results>>
    /\ UNCHANGED <<fetchVars, runVars, worldVars, sideVars, uiVars>>

\* a menu whose choice 4 posts as well
ChoiceTargetFourPosts(c) ==
    CASE c = <<"1">> -> "post_one"
      [] c = <<"2">> -> "post_one"
      [] c = <<"3">> -> "both_en"
      [] c = <<"4">> -> "post_one"
      [] OTHER -> "exit"

\* main, lines 64-98: where a choice leads
ChoiceTarget(c) ==
    CASE c = <<"1">> -> "post_one"
      [] c = <<"2">> -> "post_one"
      [] c = <<"3">> -> "both_en"
      [] OTHER -> "exit"

\* main, lines 61-62 and 94-107: the prompt
MainInput ==
    /\ pc = "main_input"
    /\ \E i \in InputOutcomes :
         CASE i.how = "line" ->
                /\ choice' = Strip(i.raw)
                /\ pc' = ChoiceTarget(choice')
                /\ exit_code' = IF pc' = "exit" THEN "0" ELSE exit_code
           [] i.how = "KeyboardInterrupt" ->
                /\ choice' = choice
                /\ pc' = "exit"
                /\ exit_code' = "0"
           [] i.how = "EOFError" ->
                /\ choice' = choice
                /\ pc' = "exit"
                /\ exit_code' = "1"
    /\ UNCHANGED <<attempts, results>>
    /\ UNCHANGED <<fetchVars, runVars, worldVars, sideVars, uiVars>>

\* main, lines 64-76: choice 1 or 2, one post
MainPostOne ==
    /\ pc = "post_one"
    /\ \E h \in HttpOutcomes :
         LET a == Attempt(MainPost, IF choice = <<"1">> THEN "en" ELSE "es", h)
         IN  /\ attempts' = Append(attempts, a)
             /\ exit_code' = IF a.outcome = "raised" THEN "1" ELSE "0"
    /\ pc' = "exit"
    /\ UNCHANGED <<choice, results>>
    /\ UNCHANGED <<fetchVars, runVars, worldVars, sideVars, uiVars>>

\* post_both_languages: the language the second attempt is made for
SecondLanguage == "es"

\* a post_both_languages that gives up after a failed first attempt
AttemptsSecondIfFirstOk(first) == first

\* post_both_languages: whether the second attempt is made, given the first
\* attempt's result
AttemptsSecond(first) == TRUE

\* post_both_languages, lines 117-120
PostBothEnglish ==
    /\ pc = "both_en"
    /\ \E h \in HttpOutcomes :
         LET a == Attempt(MainPost, "en", h)
         IN  /\ attempts' = Append(attempts, a)
             /\ IF a.outcome = "raised"
                THEN /\ results' = [kind |-> "dict"]
                     /\ pc' = "exit"
                     /\ exit_code' = "1"
                ELSE /\ results' = DictSet([kind |-> "dict"], "english", a.outcome = "True")
                     /\ pc' = IF AttemptsSecond(a.outcome = "True") THEN "both_es"
                                                                     ELSE "both_report"
                     /\ exit_code' = exit_code
    /\ UNCHANGED choice
    /\ UNCHANGED <<fetchVars, runVars, worldVars, sideVars, uiVars>>

\* post_both_languages, lines 122-125
PostBothSpanish ==
    /\ pc = "both_es"
    /\ \E h \in HttpOutcomes :
         LET a == Attempt(MainPost, SecondLanguage, h)
         IN  /\ attempts' = Append(attempts, a)
             /\ IF a.outcome = "raised"
                THEN /\ results' = results
                     /\ pc' = "exit"
                     /\ exit_code' = "1"
                ELSE /\ results' = DictSet(results, "spanish", a.outcome = "True")
                     /\ pc' = "both_report"
                     /\ exit_code' = exit_code
    /\ UNCHANGED choice
    /\ UNCHANGED <<fetchVars, runVars, worldVars, sideVars, uiVars>>

\* main, lines 79-92: report both results and end
MainReportBoth ==
    /\ pc = "both_report"
    /\ pc' = "exit"
    /\ exit_code' = "0"
    /\ UNCHANGED <<choice, attempts, results>>
    /\ UNCHANGED <<fetchVars, runVars, worldVars, sideVars, uiVars>>

(***************************************************************************)
(* The desktop GUI (linkedin_ui.py): the Generate button starts a thread   *)
(* that calls LinkedInMCP.run; its callbacks run in the Tk main loop.      *)
(***************************************************************************)
\* generate_post, lines 138-154: the button is disabled until a callback
GuiGenerate ==
    /\ pc = "gui_idle"
    /\ env_openai
    /\ pc' = "run"
    /\ gui_status' = "Generating AI news post..."
    /\ url_i' = 0
    /\ med_articles' = <<>>
    /\ unique_articles' = <<>>
    /\ requests' = [u \in 1..NumUrls |-> 0]
    /\ mcp_runs' = 0
    /\ llm_searches' = 0
    /\ consulted' = <<>>
    /\ yielded' = [s \in Sources |-> <<>>]
    /\ articles' = <<>>
    /\ post_data' = NoneVal
    /\ result' = Running
    /\ steps' = <<>>
    /\ gen_calls' = 0
    /\ UNCHANGED <<post_file, gui_post_data, env_openai, webVars>>
    /\ UNCHANGED <<worldVars, sideVars, mainVars>>

\* _generate_post_thread lines 160-163 and _on_generation_complete
GuiComplete ==
    /\ pc = "gui_after_run"
    /\ pc' = "gui_idle"
    /\ IF Truthy(result.value)
       THEN /\ gui_post_data' = result.value
            /\ gui_status' = "Post generated successfully!"
       ELSE /\ gui_post_data' = gui_post_data
            /\ gui_status' = "Failed to generate post"
    /\ UNCHANGED <<env_openai, webVars>>
    /\ UNCHANGED <<fetchVars, runVars, worldVars, sideVars, mainVars>>

\* _generate_post_thread lines 165-167 and _on_generation_error
GuiError ==
    /\ pc = "gui_except"
    /\ pc' = "gui_idle"
    /\ gui_status' = "Error occurred"
    /\ UNCHANGED <<gui_post_data, env_openai, webVars>>
    /\ UNCHANGED <<fetchVars, runVars, worldVars, sideVars, mainVars>>

(***************************************************************************)
(* The web UI (linkedin_web_ui_alt.py).  Flask runs threaded: a handler    *)
(* and a generate_post_async thread interleave between any two statements. *)
(* The thread's call of fetch_latest_news touches none of the globals: it  *)
(* is one step, whose result is any list of articles the fetch can return. *)
(***************************************************************************)
\* the lists search_ai_articles can return: the loop holds fewer than
\* MaxResults articles before the page that ends it
MediumReturns(pages) ==
    { Take(RemoveDuplicates(s), MaxResults) :
        s \in BoundedSeq(pages, (MaxResults - 1) + Min(MaxFound, PageLimit)) }

\* the lists fetch_latest_news can return
FetchResults(pages) ==
    { m \in MediumReturns(pages) : MediumSuffices(m) }
    \cup { McpReturn(o) : o \in {x \in services.mcp : ~McpFallsBack(x)} }
    \cup { SearchNewsWithOpenai(o) :
             o \in {x \in services.search : \E y \in services.mcp : McpFallsBack(y)} }

Threads == DOMAIN webPc

Requests == DOMAIN reqPc

ThreadDone == {"done_ok", "done_no_articles", "done_no_post"}

\* POST /api/generate arrives
GenerateArrives(q) ==
    /\ reqPc[q] = "idle"
    /\ "generate" \in reqKinds[q]
    /\ reqPc' = [reqPc EXCEPT ![q] = "gen_check"]
    /\ reqResp' = [reqResp EXCEPT ![q] = "none"]
    /\ UNCHANGED <<webGlobals, webPc, webArticles, webPost, webSteps>>
    /\ UNCHANGED <<env_openai, guiVars, pc, fetchVars, runVars, worldVars, sideVars, mainVars>>

\* a check that lets every request through
NeverGenerating(status) == FALSE

\* generate_post, line 90: if generation_status == "generating"
AlreadyGenerating(status) == status = "generating"

\* generate_post, lines 90-94: already generating
GenerateCheckStatus(q) ==
    /\ reqPc[q] = "gen_check"
    /\ IF AlreadyGenerating(generation_status)
       THEN /\ reqPc' = [reqPc EXCEPT ![q] = "idle"]
            /\ reqResp' = [reqResp EXCEPT ![q] = "400 in progress"]
       ELSE /\ reqPc' = [reqPc EXCEPT ![q] = "gen_key"]
            /\ reqResp' = reqResp
    /\ UNCHANGED <<webGlobals, webPc, webArticles, webPost, webSteps>>
    /\ UNCHANGED <<env_openai, guiVars, pc, fetchVars, runVars, worldVars, sideVars, mainVars>>

\* generate_post, lines 97-101: no API key
GenerateCheckKey(q) ==
    /\ reqPc[q] = "gen_key"
    /\ IF ~env_openai
       THEN /\ reqPc' = [reqPc EXCEPT ![q] = "idle"]
            /\ reqResp' = [reqResp EXCEPT ![q] = "400 no key"]
       ELSE /\ reqPc' = [reqPc EXCEPT ![q] = "gen_status"]
            /\ reqResp' = reqResp
    /\ UNCHANGED <<webGlobals, webPc, webArticles, webPost, webSteps>>
    /\ UNCHANGED <<env_openai, guiVars, pc, fetchVars, runVars, worldVars, sideVars, mainVars>>

\* generate_post, lines 104-106: the three assignments that reset the status
GenerateReset(q) ==
    /\ \/ /\ reqPc[q] = "gen_status"
          /\ generation_status' = "generating"
          /\ reqPc' = [reqPc EXCEPT ![q] = "gen_message"]
          /\ UNCHANGED <<generation_message, generation_progress>>
       \/ /\ reqPc[q] = "gen_message"
          /\ generation_message' = "Starting generation..."
          /\ reqPc' = [reqPc EXCEPT ![q] = "gen_progress"]
          /\ UNCHANGED <<generation_status, generation_progress>>
       \/ /\ reqPc[q] = "gen_progress"
          /\ generation_progress' = 0
          /\ reqPc' = [reqPc EXCEPT ![q] = "gen_start"]
          /\ UNCHANGED <<generation_status, generation_message>>
    /\ UNCHANGED <<current_post_data, reqResp, webPc, webArticles, webPost, webSteps>>
    /\ UNCHANGED <<env_openai, guiVars, pc, fetchVars, runVars, worldVars, sideVars, mainVars>>

\* generate_post, lines 109-116: start the thread and answer; the thread
\* takes a slot no running thread holds
GenerateStart(q) ==
    /\ reqPc[q] = "gen_start"
    /\ \E t \in Threads :
         /\ webPc[t] \in {"idle"} \cup ThreadDone
         /\ webPc' = [webPc EXCEPT ![t] = "set_status"]
         /\ webArticles' = [webArticles EXCEPT ![t] = <<>>]
         /\ webPost' = [webPost EXCEPT ![t] = NoneVal]
         /\ webSteps' = [webSteps EXCEPT ![t] = <<>>]
    /\ reqPc' = [reqPc EXCEPT ![q] = "idle"]
    /\ reqResp' = [reqResp EXCEPT ![q] = "200 started"]
    /\ UNCHANGED webGlobals
    /\ UNCHANGED <<env_openai, guiVars, pc, fetchVars, runVars, worldVars, sideVars, mainVars>>

\* a thread that goes on to keep the post after it has reported the failure
StatusWritesThenStore ==
    [ set_status |-> [val |-> "generating", next |-> "set_message"],
      no_articles_status |-> [val |-> "error", next |-> "no_articles_message"],
      no_post_status |-> [val |-> "error", next |-> "store"],
      ok_status |-> [val |-> "success", next |-> "ok_message"] ]

\* a thread that reports a failed generation as still generating
StatusWritesKeepGenerating ==
    [ set_status |-> [val |-> "generating", next |-> "set_message"],
      no_articles_status |-> [val |-> "error", next |-> "no_articles_message"],
      no_post_status |-> [val |-> "generating", next |-> "no_post_message"],
      ok_status |-> [val |-> "success", next |-> "ok_message"] ]

\* generate_post_async: the assignments to generation_status, by position:
\* the value written and the position after it
StatusWrites ==
    [ set_status |-> [val |-> "generating", next |-> "set_message"],
      no_articles_status |-> [val |-> "error", next |-> "no_articles_message"],
      no_post_status |-> [val |-> "error", next |-> "no_post_message"],
      ok_status |-> [val |-> "success", next |-> "ok_message"] ]

\* generate_post_async: the assignments to generation_message
MessageWrites ==
    [ set_message |-> [val |-> "Fetching latest AI news...", next |-> "set_progress"],
      no_articles_message |->
          [val |-> "No articles found. Please try again.", next |-> "no_articles_progress"],
      gen_message |-> [val |-> "Generating LinkedIn post...", next |-> "gen_progress"],
      no_post_message |->
          [val |-> "Failed to generate post. Please try again.", next |-> "no_post_progress"],
      ok_message |-> [val |-> "Post generated successfully!", next |-> "ok_progress"] ]

\* generate_post_async: the assignments to generation_progress
ProgressWrites ==
    [ set_progress |-> [val |-> 25, next |-> "fetch"],
      no_articles_progress |-> [val |-> 0, next |-> "done_no_articles"],
      gen_progress |-> [val |-> 75, next |-> "generate"],
      no_post_progress |-> [val |-> 0, next |-> "done_no_post"],
      ok_progress |-> [val |-> 100, next |-> "done_ok"] ]

\* generate_post_async: one assignment to generation_status
ThreadSetStatus(t) ==
    /\ webPc[t] \in DOMAIN StatusWrites
    /\ generation_status' = StatusWrites[webPc[t]].val
    /\ webPc' = [webPc EXCEPT ![t] = StatusWrites[webPc[t]].next]
    /\ UNCHANGED <<current_post_data, generation_message, generation_progress>>
    /\ UNCHANGED <<reqPc, reqResp, webArticles, webPost, webSteps>>
    /\ UNCHANGED <<env_openai, guiVars, pc, fetchVars, runVars, worldVars, sideVars, mainVars>>

\* generate_post_async: one assignment to generation_message
ThreadSetMessage(t) ==
    /\ webPc[t] \in DOMAIN MessageWrites
    /\ generation_message' = MessageWrites[webPc[t]].val
    /\ webPc' = [webPc EXCEPT ![t] = MessageWrites[webPc[t]].next]
    /\ UNCHANGED <<current_post_data, generation_status, generation_progress>>
    /\ UNCHANGED <<reqPc, reqResp, webArticles, webPost, webSteps>>
    /\ UNCHANGED <<env_openai, guiVars, pc, fetchVars, runVars, worldVars, sideVars, mainVars>>

\* generate_post_async: one assignment to generation_progress
ThreadSetProgress(t) ==
    /\ webPc[t] \in DOMAIN ProgressWrites
    /\ generation_progress' = ProgressWrites[webPc[t]].val
    /\ webPc' = [webPc EXCEPT ![t] = ProgressWrites[webPc[t]].next]
    /\ UNCHANGED <<current_post_data, generation_status, generation_message>>
    /\ UNCHANGED <<reqPc, reqResp, webArticles, webPost, webSteps>>
    /\ UNCHANGED <<env_openai, guiVars, pc, fetchVars, runVars, worldVars, sideVars, mainVars>>

\* generate_post_async, lines 47-48: step 1, fetch the news
ThreadFetch(t) ==
    /\ webPc[t] = "fetch"
    /\ webSteps' = [webSteps EXCEPT ![t] = Append(@, "fetch")]
    /\ \E found \in FetchResults(corpus) :
         /\ webArticles' = [webArticles EXCEPT ![t] = found]
         /\ webPc' = [webPc EXCEPT ![t] = IF found = <<>> THEN "no_articles_status"
                                                           ELSE "gen_message"]
    /\ UNCHANGED <<webGlobals, reqPc, reqResp, webPost>>
    /\ UNCHANGED <<env_openai, guiVars, pc, fetchVars, runVars, worldVars, sideVars, mainVars>>

\* a check that takes only None for a missing post
WebPostIsNone(post) == post = NoneVal

\* generate_post_async, line 59, "if not post_data:"
WebPostMissing(post) == ~Truthy(post)

\* generate_post_async, lines 58-59: step 2, generate the post
ThreadGenerate(t) ==
    /\ webPc[t] = "generate"
    /\ webSteps' = [webSteps EXCEPT ![t] = Append(@, "generate")]
    /\ \E o \in services.gen :
         /\ webPost' = [webPost EXCEPT ![t] = GeneratePost(webArticles[t], o)]
         /\ webPc' = [webPc EXCEPT ![t] = IF WebPostMissing(webPost'[t])
                                           THEN "no_post_status" ELSE "store"]
    /\ UNCHANGED <<webGlobals, reqPc, reqResp, webArticles>>
    /\ UNCHANGED <<env_openai, guiVars, pc, fetchVars, runVars, worldVars, sideVars, mainVars>>

\* generate_post_async, line 66: current_post_data = post_data
ThreadStore(t) ==
    /\ webPc[t] = "store"
    /\ current_post_data' = webPost[t]
    /\ webPc' = [webPc EXCEPT ![t] = "ok_status"]
    /\ UNCHANGED <<generation_status, generation_message, generation_progress>>
    /\ UNCHANGED <<reqPc, reqResp, webArticles, webPost, webSteps>>
    /\ UNCHANGED <<env_openai, guiVars, pc, fetchVars, runVars, worldVars, sideVars, mainVars>>

(***************************************************************************)
(* The other handlers of the web UI.  Each reads and writes the globals    *)
(* one at a time, in the order of its statements.                          *)
(***************************************************************************)
\* POST /api/clear arrives
ClearArrives(q) ==
    /\ reqPc[q] = "idle"
    /\ "clear" \in reqKinds[q]
    /\ reqPc' = [reqPc EXCEPT ![q] = "clr_post"]
    /\ reqResp' = [reqResp EXCEPT ![q] = "none"]
    /\ UNCHANGED <<webGlobals, threadVars, pollVars, offWebVars>>

\* clear_post, lines 145-148: the four assignments; the answer follows the last
ClearWrite(q) ==
    /\ \/ /\ reqPc[q] = "clr_post"
          /\ current_post_data' = NoneVal
          /\ reqPc' = [reqPc EXCEPT ![q] = "clr_status"]
          /\ UNCHANGED <<generation_status, generation_message, generation_progress, reqResp>>
       \/ /\ reqPc[q] = "clr_status"
          /\ generation_status' = "ready"
          /\ reqPc' = [reqPc EXCEPT ![q] = "clr_message"]
          /\ UNCHANGED <<current_post_data, generation_message, generation_progress, reqResp>>
       \/ /\ reqPc[q] = "clr_message"
          /\ generation_message' = "Ready to generate posts"
          /\ reqPc' = [reqPc EXCEPT ![q] = "clr_progress"]
          /\ UNCHANGED <<current_post_data, generation_status, generation_progress, reqResp>>
       \/ /\ reqPc[q] = "clr_progress"
          /\ generation_progress' = 0
          /\ reqPc' = [reqPc EXCEPT ![q] = "idle"]
          /\ reqResp' = [reqResp EXCEPT ![q] = "200 cleared"]
          /\ UNCHANGED <<current_post_data, generation_status, generation_message>>
    /\ UNCHANGED <<threadVars, pollVars, offWebVars>>

\* GET /api/status arrives
StatusArrives(q) ==
    /\ reqPc[q] = "idle"
    /\ "status" \in reqKinds[q]
    /\ reqPc' = [reqPc EXCEPT ![q] = "sts_status"]
    /\ reqResp' = [reqResp EXCEPT ![q] = "none"]
    /\ reqSeen' = [reqSeen EXCEPT ![q] = NothingSeen]
    /\ UNCHANGED <<webGlobals, threadVars, reqKinds, offWebVars>>

\* get_status, lines 121-125: the three globals are read one after the other
\* while the answer is built
StatusRead(q) ==
    /\ \/ /\ reqPc[q] = "sts_status"
          /\ reqSeen' = [reqSeen EXCEPT ![q].status = generation_status]
          /\ reqPc' = [reqPc EXCEPT ![q] = "sts_message"]
          /\ UNCHANGED reqResp
       \/ /\ reqPc[q] = "sts_message"
          /\ reqSeen' = [reqSeen EXCEPT ![q].message = generation_message]
          /\ reqPc' = [reqPc EXCEPT ![q] = "sts_progress"]
          /\ UNCHANGED reqResp
       \/ /\ reqPc[q] = "sts_progress"
          /\ reqSeen' = [reqSeen EXCEPT ![q].progress = generation_progress]
          /\ reqPc' = [reqPc EXCEPT ![q] = "idle"]
          /\ reqResp' = [reqResp EXCEPT ![q] = "200 status"]
    /\ UNCHANGED <<webGlobals, threadVars, reqKinds, offWebVars>>

\* GET /api/post arrives
PostArrives(q) ==
    /\ reqPc[q] = "idle"
    /\ "post" \in reqKinds[q]
    /\ reqPc' = [reqPc EXCEPT ![q] = "pst_check"]
    /\ reqResp' = [reqResp EXCEPT ![q] = "none"]
    /\ reqSeen' = [reqSeen EXCEPT ![q] = NothingSeen]
    /\ UNCHANGED <<webGlobals, threadVars, reqKinds, offWebVars>>

\* get_post, line 130, "if current_post_data:", and the answer of lines 136-139
PostCheck(q) ==
    /\ reqPc[q] = "pst_check"
    /\ IF Truthy(current_post_data)
       THEN /\ reqPc' = [reqPc EXCEPT ![q] = "pst_data"]
            /\ UNCHANGED reqResp
       ELSE /\ reqPc' = [reqPc EXCEPT ![q] = "idle"]
            /\ reqResp' = [reqResp EXCEPT ![q] = "200 no post"]
    /\ UNCHANGED <<webGlobals, threadVars, pollVars, offWebVars>>

\* get_post, lines 131-134: current_post_data is read again for the answer
PostData(q) ==
    /\ reqPc[q] = "pst_data"
    /\ reqSeen' = [reqSeen EXCEPT ![q].post = current_post_data]
    /\ reqPc' = [reqPc EXCEPT ![q] = "idle"]
    /\ reqResp' = [reqResp EXCEPT ![q] = "200 post"]
    /\ UNCHANGED <<webGlobals, threadVars, reqKinds, offWebVars>>

(***************************************************************************)
(* linkedin_auth.main, step 7: saving the access token to .env.  The text  *)
(* of the file is a sequence of symbols: "\n", the text                    *)
(* LINKEDIN_ACCESS_TOKEN= as one symbol, and other pieces of text.         *)
(***************************************************************************)
TokenKey == "LINKEDIN_ACCESS_TOKEN="

EnvSymbols == {TokenKey, "A=1", "B=2", "\n"}

\* the access_token the OAuth exchange gave
AccessToken == "tok"

RECURSIVE ReadLinesFrom(_, _, _, _)
ReadLinesFrom(text, k, line, lines) ==
    IF k > Len(text) THEN (IF line = <<>> THEN lines ELSE Append(lines, line))
    ELSE IF text[k] = "\n" THEN ReadLinesFrom(text, k + 1, <<>>, Append(lines, Append(line, "\n")))
    ELSE ReadLinesFrom(text, k + 1, Append(line, text[k]), lines)

\* f.readlines(): the lines of the text, each with its "\n", the last one
\* without it when the text does not end with one
ReadLines(text) == ReadLinesFrom(text, 1, <<>>, <<>>)

RECURSIVE WriteLinesFrom(_, _)
WriteLinesFrom(lines, k) ==
    IF k > Len(lines) THEN <<>> ELSE lines[k] \o WriteLinesFrom(lines, k + 1)

\* f.writelines(env_content): the strings one after the other, nothing added
WriteLines(lines) == WriteLinesFrom(lines, 1)

\* line.startswith('LINKEDIN_ACCESS_TOKEN=')
StartsWithTokenKey(line) == line # <<>> /\ line[1] = TokenKey

\* f'LINKEDIN_ACCESS_TOKEN={access_token}\n'
TokenLine(token) == <<TokenKey, token, "\n">>

\* lines 203-208: read .env when it exists
AuthRead ==
    /\ auth_pc = "save"
    /\ env_content' = IF env_file.exists THEN ReadLines(env_file.text) ELSE <<>>
    /\ updated' = FALSE
    /\ auth_i' = 1
    /\ auth_pc' = "scan"
    /\ UNCHANGED <<env_file, env_before>>
    /\ UNCHANGED <<worldVars, pc, fetchVars, runVars, mainVars, uiVars, pollVars>>

\* lines 212-216: one pass of the loop that looks for the token's line
AuthScan ==
    /\ auth_pc = "scan"
    /\ IF auth_i > Len(env_content)
       THEN /\ auth_pc' = "append"
            /\ UNCHANGED <<env_content, updated, auth_i>>
       ELSE IF StartsWithTokenKey(env_content[auth_i])
       THEN /\ env_content' = [env_content EXCEPT ![auth_i] = TokenLine(AccessToken)]
            /\ updated' = TRUE
            /\ auth_pc' = "append"
            /\ UNCHANGED auth_i
       ELSE /\ auth_i' = auth_i + 1
            /\ UNCHANGED <<env_content, updated, auth_pc>>
    /\ UNCHANGED <<env_file, env_before>>
    /\ UNCHANGED <<worldVars, pc, fetchVars, runVars, mainVars, uiVars, pollVars>>

\* lines 218-219: no line was updated, append one
AuthAppend ==
    /\ auth_pc = "append"
    /\ env_content' = IF ~updated THEN Append(env_content, TokenLine(AccessToken))
                                  ELSE env_content
    /\ auth_pc' = "write"
    /\ UNCHANGED <<env_file, env_before, updated, auth_i>>
    /\ UNCHANGED <<worldVars, pc, fetchVars, runVars, mainVars, uiVars, pollVars>>

\* lines 222-223: write the lines back
AuthWrite ==
    /\ auth_pc = "write"
    /\ env_file' = [exists |-> TRUE, text |-> WriteLines(env_content)]
    /\ auth_pc' = "done"
    /\ UNCHANGED <<env_before, env_content, updated, auth_i>>
    /\ UNCHANGED <<worldVars, pc, fetchVars, runVars, mainVars, uiVars, pollVars>>

vars == <<worldVars, pc, fetchVars, runVars, mainVars, uiVars, sideVars>>

\* post_to_linkedin.py: the complete pipeline, run once
Init ==
    /\ corpus = Corpus
    /\ env_token \in BOOLEAN
    /\ env_company \in BOOLEAN
    /\ env_openai = TRUE
    /\ caller = "pipeline"
    /\ services = AllServices
    /\ pc = "run"
    /\ InitRun
    /\ InitMain
    /\ InitUi({})
    /\ InitAuthOff

Fetch == RunFetch \/ MediumGet \/ MediumReturn \/ FetchCheck \/ McpRun \/ LlmSearch
         \/ FetchReturn

Run == Fetch \/ RunCheckArticles \/ RunGenerate \/ RunCheckPost \/ RunOutput

Main == MainUncaught \/ MainCheckPost \/ MainCheckToken \/ MainCheckCompany
        \/ MainInitPoster \/ MainInput \/ MainPostOne \/ PostBothEnglish
        \/ PostBothSpanish \/ MainReportBoth

Next == Run \/ Main

Spec == Init /\ [][Next]_vars

\* the desktop GUI or the web UI: each is a process of its own, started in a
\* world whose Medium pages show one article
InitUI ==
    /\ corpus = {CHOOSE a \in Corpus : a.title = TitleML}
    /\ env_token = FALSE
    /\ env_company = FALSE
    /\ env_openai \in BOOLEAN
    /\ services = AllServices
    /\ InitRun
    /\ InitMain
    /\ InitAuthOff
    /\ \/ /\ caller = "gui"
          /\ pc = "gui_idle"
          /\ InitUi({})
       \/ /\ caller = "web"
          /\ pc = "serving"
          /\ InitUi({1})

Gui == GuiGenerate \/ GuiComplete \/ GuiError

WebHandlers ==
    \E q \in Requests :
        \/ GenerateArrives(q)
        \/ GenerateCheckStatus(q)
        \/ GenerateCheckKey(q)
        \/ GenerateReset(q)
        \/ GenerateStart(q)

WebThread ==
    \E t \in Threads :
        \/ ThreadSetStatus(t)
        \/ ThreadSetMessage(t)
        \/ ThreadSetProgress(t)
        \/ ThreadFetch(t)
        \/ ThreadGenerate(t)
        \/ ThreadStore(t)

\* the next statement of the thread t, whichever it is
ThreadStep(t) ==
    \/ ThreadSetStatus(t)
    \/ ThreadSetMessage(t)
    \/ ThreadSetProgress(t)
    \/ ThreadFetch(t)
    \/ ThreadGenerate(t)
    \/ ThreadStore(t)

\* the next statement of the handler of q, once its request has arrived
HandlerStep(q) ==
    \/ GenerateCheckStatus(q)
    \/ GenerateCheckKey(q)
    \/ GenerateReset(q)
    \/ GenerateStart(q)
    \/ ClearWrite(q)

NextUI == Gui \/ Run \/ WebHandlers \/ WebThread

SpecUI == InitUI /\ [][NextUI]_vars

\* the services of the web server's world: an article or none, a post or none
RaceServices ==
    [mcp |-> {[how |-> "FileNotFoundError"]},
     search |-> {[how |-> "raise"],
                 [how |-> "reply", content |->
                     [kind |-> "json",
                      value |-> [kind |-> "dict", articles |-> <<LlmArticle>>]]]},
     gen |-> {[how |-> "raise"],
              [how |-> "reply", content |-> [kind |-> "json", value |-> PostFull]]}]

\* the web server process with the clients and threads given
InitServer(kinds, threads) ==
    /\ corpus = {}
    /\ env_token = FALSE
    /\ env_company = FALSE
    /\ env_openai \in BOOLEAN
    /\ services = RaceServices
    /\ caller = "web"
    /\ pc = "serving"
    /\ InitRun
    /\ InitMain
    /\ InitAuthOff
    /\ gui_post_data = NoneVal
    /\ gui_status = "Ready to generate posts"
    /\ InitWeb(kinds, threads)

\* two clients, one that generates and clears and one that generates, and
\* room for two threads
InitRace ==
    InitServer([q \in {1, 2} |-> IF q = 1 THEN {"generate", "clear"}
                                          ELSE {"generate"}], {1, 2})

ClearHandler == \E q \in Requests : ClearArrives(q) \/ ClearWrite(q)

StatusHandler == \E q \in Requests : StatusArrives(q) \/ StatusRead(q)

PostHandler == \E q \in Requests : PostArrives(q) \/ PostCheck(q) \/ PostData(q)

NextRace == WebHandlers \/ ClearHandler \/ WebThread

SpecRace == InitRace /\ [][NextRace]_vars

LiveClients == {1, 2}

LiveThreads == {1}

\* one client that generates and one that clears, and one thread at a time;
\* every thread and every handler that can take a step eventually takes one,
\* and the fetch and the LLM call return or raise
InitLive ==
    InitServer([q \in LiveClients |-> IF q = 1 THEN {"generate"} ELSE {"clear"}],
               LiveThreads)

SpecLive ==
    /\ InitLive
    /\ [][NextRace]_vars
    /\ \A t \in LiveThreads : WF_vars(ThreadStep(t))
    /\ \A q \in LiveClients : WF_vars(HandlerStep(q))

\* one client that generates and clears, one that polls the status and reads
\* the post, and one thread at a time
InitPoll ==
    InitServer([q \in {1, 2} |-> IF q = 1 THEN {"generate", "clear"}
                                          ELSE {"status", "post"}], {1})

NextPoll == WebHandlers \/ ClearHandler \/ StatusHandler \/ PostHandler \/ WebThread

SpecPoll == InitPoll /\ [][NextPoll]_vars

\* linkedin_auth.main at its credential-saving step, for every previous .env
InitEnv ==
    /\ corpus = {}
    /\ env_token = FALSE
    /\ env_company = FALSE
    /\ env_openai = FALSE
    /\ services = AllServices
    /\ caller = "auth"
    /\ pc = "auth"
    /\ InitRun
    /\ InitMain
    /\ InitUi({})
    /\ env_file \in {[exists |-> FALSE, text |-> <<>>]}
                    \cup {[exists |-> TRUE, text |-> t] : t \in BoundedSeq(EnvSymbols, MaxFileLen)}
    /\ env_before = env_file
    /\ env_content = <<>>
    /\ updated = FALSE
    /\ auth_i = 0
    /\ auth_pc = "save"

NextEnv == AuthRead \/ AuthScan \/ AuthAppend \/ AuthWrite

SpecEnv == InitEnv /\ [][NextEnv]_vars

(***************************************************************************)
(* Properties of the fetch (specification Spec).                           *)
(***************************************************************************)
IsPrefix(s, t) == Len(s) <= Len(t) /\ s = SubSeq(t, 1, Len(s))

FetchReturned == pc = "run_check_articles"

\* the order the code consults its sources in
CodeChain == <<"medium", "mcp", "llm">>

\* the order stated for the fetch
StatedChain == <<"newsapi", "google_rss", "medium", "llm">>

\* every source of consulted comes after all the sources that precede it in chain
FollowsChain(chain) ==
    \A i \in DOMAIN consulted :
        \E k \in DOMAIN chain :
            /\ consulted[i] = chain[k]
            /\ \A e \in 1..(k - 1) : \E j \in 1..(i - 1) : consulted[j] = chain[e]

\* the articles of the first source, in the code's order, that yielded any
FirstYield ==
    IF yielded["medium"] # <<>> THEN yielded["medium"]
    ELSE IF yielded["mcp"] # <<>> THEN yielded["mcp"]
    ELSE yielded["llm"]

\* C1 as stated: the sources are consulted in the order NewsAPI, Google News
\* RSS, Medium scraping, LLM search, each only after all the earlier ones.
C1_StatedOrder == FollowsChain(StatedChain)

\* C1, amended: the sources are consulted in the order Medium scraping, MCP
\* server command, LLM search; a source is consulted only after every earlier
\* one was consulted and yielded no articles; the fetch returns the articles of
\* the first source that yielded any (none if no source did).
C1_FallbackOrder ==
    /\ FollowsChain(CodeChain)
    /\ Len(consulted) <= Len(CodeChain)
    /\ \A i \in DOMAIN consulted :
         \A j \in 1..(i - 1) : yielded[consulted[j]] = <<>>
    /\ FetchReturned => articles = FirstYield

\* the whole chain was consulted and its last source yielded the articles
C1_Witness ==
    /\ FetchReturned
    /\ consulted = CodeChain
    /\ articles # <<>>
    /\ articles = yielded["llm"]

\* C2: within one fetch each Medium tag url is requested at most once, the MCP
\* server command is run at most once and the LLM search is sent at most once.
C2_NoRetry ==
    /\ \A u \in DOMAIN requests : requests[u] <= 1
    /\ mcp_runs <= 1
    /\ llm_searches <= 1

\* every tag page was requested and gave nothing, the MCP server failed, the
\* LLM search gave nothing: each of them was still tried once only
C2_Witness ==
    /\ FetchReturned
    /\ \A u \in DOMAIN requests : requests[u] = 1
    /\ yielded["medium"] = <<>>
    /\ mcp_runs = 1
    /\ llm_searches = 1
    /\ articles = <<>>

\* the articles of s at the positions in keep, in their order
RECURSIVE PickFrom(_, _, _)
PickFrom(s, keep, k) ==
    IF k > Len(s) THEN <<>>
    ELSE IF k \in keep THEN <<s[k]>> \o PickFrom(s, keep, k + 1)
    ELSE PickFrom(s, keep, k + 1)

\* positions of s whose article has the very title string of an earlier one
ExactRepeats(s) == {k \in DOMAIN s : \E j \in 1..(k - 1) : TitleOf(s[j]) = TitleOf(s[k])}

\* positions of s whose title, lower-cased and stripped, is empty or is that
\* of an earlier article
FoldedRepeats(s) ==
    {k \in DOMAIN s :
        \/ Strip(Lower(TitleOf(s[k]))) = <<>>
        \/ \E j \in 1..(k - 1) :
              Strip(Lower(TitleOf(s[j]))) = Strip(Lower(TitleOf(s[k])))}

Deduplicated == pc = "fetch_check"

\* C3 as stated: _remove_duplicates drops an article iff an earlier article of
\* the input has the identical title string, and keeps the others in order.
C3_ExactTitle ==
    Deduplicated =>
        unique_articles = PickFrom(med_articles, DOMAIN med_articles \ ExactRepeats(med_articles), 1)

\* C3, amended: _remove_duplicates drops an article iff its title, lower-cased
\* and stripped of surrounding whitespace, is empty or equals the lower-cased
\* stripped title of an earlier article of the input; it keeps the others in
\* their original order.
C3_FoldedTitle ==
    Deduplicated =>
        unique_articles = PickFrom(med_articles, DOMAIN med_articles \ FoldedRepeats(med_articles), 1)

\* an article was dropped whose title string no earlier article has (it
\* differs from an earlier title in letter case only), another was kept
C3_Witness ==
    /\ Deduplicated
    /\ FoldedRepeats(med_articles) \ ExactRepeats(med_articles) # {}
    /\ Len(unique_articles) >= 2

\* C4 as stated: the fetch returns an empty list only if every source, up to
\* and including the LLM search, was consulted in that call and yielded nothing.
C4_EmptyOnlyAfterAll ==
    (FetchReturned /\ articles = <<>>) => consulted = CodeChain

(***************************************************************************)
(* Properties of run and of the complete pipeline (specification Spec).    *)
(***************************************************************************)
RunOver == result # Running

\* the steps of the pipeline before its output step, for what the fetch and
\* the generation gave
StepsBeforeOutput(found, post) ==
    IF found = <<>> THEN <<"fetch">> ELSE <<"fetch", "generate">>

\* the three steps of the pipeline, for what the fetch and the generation gave
PipelineSteps(found, post) ==
    IF found # <<>> /\ Truthy(post)
    THEN Append(StepsBeforeOutput(found, post), "output")
    ELSE StepsBeforeOutput(found, post)

ThreadOver(t) == webPc[t] \in ThreadDone

\* C5 as stated: for the same outcomes of the fetch and of the generation,
\* generate_post_async does the steps of run, fetch, generate and output, the
\* save to linkedin_post.json included, and ends with the same post or failure.
C5_SamePipeline ==
    \A t \in Threads :
        ThreadOver(t) =>
            /\ webSteps[t] = PipelineSteps(webArticles[t], webPost[t])
            /\ webPc[t] = "done_ok" => post_file = webPost[t]

\* C5, corrected: generate_post_async does the fetch and the generate step of
\* run, in that order and with run's stops: it ends after the fetch when there
\* are no articles, reports a failure exactly when the post is missing or
\* empty, which is when run returns None, and otherwise keeps the post; but it
\* has no output step and never writes linkedin_post.json.  run, which the GUI
\* calls, does all three steps on the same fetch results.
C5_FetchAndGenerateOnly ==
    /\ \A t \in Threads :
          ThreadOver(t) =>
              /\ webSteps[t] = StepsBeforeOutput(webArticles[t], webPost[t])
              /\ webArticles[t] \in FetchResults(corpus)
              /\ (webPc[t] = "done_no_articles") = (webArticles[t] = <<>>)
              /\ (webPc[t] = "done_no_post") =
                     (webArticles[t] # <<>> /\ ~Truthy(webPost[t]))
              /\ webPc[t] = "done_ok" => current_post_data # NoneVal
    /\ caller = "web" => post_file = NoneVal
    /\ RunOver =>
          /\ steps = PipelineSteps(articles, post_data)
          /\ articles \in FetchResults(corpus)
          /\ (result = Returned(NoneVal)) = (articles = <<>> \/ ~Truthy(post_data))
          /\ result.how = "return" /\ result.value # NoneVal => result.value = post_data

C5_Witness ==
    \E t \in Threads :
        /\ webPc[t] = "done_ok"
        /\ webSteps[t] = <<"fetch", "generate">>
        /\ webPost[t] = PostFull
        /\ current_post_data = PostFull
        /\ post_file = NoneVal

\* C6 as stated: run does fetch, generate, output in that order and stops at
\* the first failing step: no post-generation request when the fetch returned
\* no articles, linkedin_post.json written only after a post was generated in
\* this run, None returned in both failure cases, the generated post otherwise.
C6_RunContract ==
    /\ IsPrefix(steps, <<"fetch", "generate", "output">>)
    /\ gen_calls > 0 => (FetchReturned \/ "generate" \in Range(steps)) /\ articles # <<>>
    /\ post_file # NoneVal =>
          /\ steps = <<"fetch", "generate", "output">>
          /\ Truthy(post_data)
          /\ post_file = post_data
    /\ RunOver =>
          result = IF articles = <<>> \/ ~Truthy(post_data) THEN Returned(NoneVal)
                                                            ELSE Returned(post_data)

\* C7 as stated: whenever generate_post returns a post, for any LLM reply, the
\* post is a mapping with the fields title, post_body_en, post_body_es and link.
C7_Bilingual ==
    (pc = "run_check_post" /\ post_data # NoneVal) =>
        (post_data.kind = "dict" /\ PostFields \subseteq DOMAIN post_data)

\* C8: a publish request is sent only if, earlier in the same run, a post was
\* generated, both LinkedIn credentials were found set and the user entered 1,
\* 2 or 3.
C8_PublishGuard ==
    \A i \in DOMAIN attempts :
        attempts[i].sent =>
            /\ result.how = "return"
            /\ Truthy(result.value)
            /\ result.value = post_data
            /\ gen_calls = 1
            /\ env_token
            /\ env_company
            /\ choice \in {<<"1">>, <<"2">>, <<"3">>}

\* a publish request went out
C8_Witness ==
    /\ pc = "exit"
    /\ \E i \in DOMAIN attempts : attempts[i].sent /\ attempts[i].language = "es"

\* C9: post_to_company_page never raises; it returns True iff a publish request
\* was sent and answered with status 201, and False for every other status, for
\* a timeout or connection error and for any other exception.
C9_PostResult ==
    \A i \in DOMAIN attempts :
        LET a == attempts[i]
        IN  /\ a.outcome \in {"True", "False"}
            /\ a.outcome = "True" <=>
                  (a.sent /\ a.http.how = "status" /\ a.http.code = Created)

\* one call ran into an exception before anything was sent (a post body that
\* is not a string) and returned False, the next was answered 201
C9_Witness ==
    /\ Len(attempts) = 2
    /\ attempts[1].caught = "TypeError"
    /\ ~attempts[1].sent
    /\ attempts[1].outcome = "False"
    /\ attempts[2].http = [how |-> "status", code |-> Created]
    /\ attempts[2].outcome = "True"

\* C10: post_both_languages attempts English first and Spanish second, the
\* Spanish one also when the English one failed, and returns a dict with
\* exactly the keys 'english' and 'spanish', each the outcome of its attempt.
C10_BothLanguages ==
    /\ pc = "both_es" =>
          Len(attempts) = 1 /\ attempts[1].language = "en"
    /\ pc = "both_report" =>
          /\ Len(attempts) = 2
          /\ attempts[1].language = "en"
          /\ attempts[2].language = "es"
          /\ DOMAIN results = {"kind", "english", "spanish"}
          /\ results["english"] = (attempts[1].outcome = "True")
          /\ results["spanish"] = (attempts[2].outcome = "True")

\* the English attempt failed, the Spanish one was made and succeeded
C10_Witness ==
    /\ pc = "both_report"
    /\ ~results["english"]
    /\ results["spanish"]

(***************************************************************************)
(* Properties of the credential-saving step.                               *)
(***************************************************************************)
\* a line without the "\n" that ends it
Chomp(line) ==
    IF line # <<>> /\ line[Len(line)] = "\n" THEN SubSeq(line, 1, Len(line) - 1) ELSE line

\* the lines of a file, as a reader of the file sees them
FileLines(file) ==
    LET lines == ReadLines(file.text)
    IN  [k \in 1..Len(lines) |-> Chomp(lines[k])]

IsTokenEntry(line) == line # <<>> /\ line[1] = TokenKey

IsOtherLine(line) == ~IsTokenEntry(line)

NewTokenEntry == <<TokenKey, AccessToken>>

\* the first line of a list that is a token entry, 0 when there is none
FirstTokenEntry(lines) ==
    IF \E k \in 1..Len(lines) : IsTokenEntry(lines[k])
    THEN CHOOSE k \in 1..Len(lines) :
             IsTokenEntry(lines[k]) /\ \A j \in 1..(k - 1) : ~IsTokenEntry(lines[j])
    ELSE 0

\* C12 as stated: the credential-saving step changes only the access-token
\* entry of .env: the lines that do not start with LINKEDIN_ACCESS_TOKEN= are
\* afterwards the same lines in the same order, and the first line that does is
\* replaced by LINKEDIN_ACCESS_TOKEN=<new token>, or that line is appended when
\* there was none, whatever the file held before.
C12_OnlyTokenEntry ==
    auth_pc = "done" =>
        LET old == FileLines(env_before)
            new == FileLines(env_file)
            at == FirstTokenEntry(old)
        IN  /\ SelectSeq(new, IsOtherLine) = SelectSeq(old, IsOtherLine)
            /\ \E k \in 1..Len(new) : new[k] = NewTokenEntry
            /\ new = IF at = 0 THEN Append(old, NewTokenEntry)
                               ELSE [old EXCEPT ![at] = NewTokenEntry]


(***************************************************************************)
(* Properties of the web UI under concurrent requests.                     *)
(***************************************************************************)
ThreadActive(t) == webPc[t] \notin ({"idle"} \cup ThreadDone)

ActiveThreads == {t \in Threads : ThreadActive(t)}

\* C11 as stated: under every interleaving of /api/generate requests,
\* /api/clear requests and the background thread, at most one generation
\* thread is active at any time.
C11_OneThread == Cardinality(ActiveThreads) <= 1

\* the step is one of the handler of q, before it has accepted the request
ChecksOnly(q) ==
    /\ reqPc[q] \in {"idle", "gen_check", "gen_key"}
    /\ reqPc'[q] \in {"idle", "gen_check", "gen_key"}
    /\ reqPc'[q] # reqPc[q]

\* the step ends the handler of q with the answer r and starts no thread
RejectedWith(q, r) ==
    /\ reqPc'[q] = "idle"
    /\ reqResp'[q] = r
    /\ UNCHANGED threadVars

\* C18: an /api/generate request whose handler finds the status 'generating',
\* or then finds OPENAI_API_KEY not set, is answered 400 and starts no thread,
\* and no step of its handler changes generation_status, generation_message,
\* generation_progress or current_post_data.
C18_RejectedNoEffect ==
    [][\A q \in Requests :
          /\ ChecksOnly(q) => UNCHANGED <<webGlobals, threadVars>>
          /\ (reqPc[q] = "gen_check" /\ reqPc'[q] # "gen_check"
                 /\ generation_status = "generating") => RejectedWith(q, "400 in progress")
          /\ (reqPc[q] = "gen_key" /\ reqPc'[q] # "gen_key" /\ ~env_openai)
                => RejectedWith(q, "400 no key")]_vars

C18_Witness ==
    \E q \in Requests :
        /\ reqResp[q] = "400 in progress"
        /\ reqPc[q] = "idle"
        /\ generation_status = "generating"
        /\ ActiveThreads # {}

\* /api/status would read 'ready' and 0, /api/post would find no post
ClearedState ==
    /\ generation_status = "ready"
    /\ generation_progress = 0
    /\ ~Truthy(current_post_data)

\* the handler of q is handling an /api/generate or an /api/clear request
Handling(q) ==
    reqPc[q] \in {"gen_check", "gen_key", "gen_status", "gen_message", "gen_progress",
                  "gen_start", "clr_post", "clr_status", "clr_message", "clr_progress"}

\* C13 as stated: once an /api/clear request has returned, the state stays
\* cleared (status 'ready', progress 0, no post for /api/post) until the next
\* /api/generate request is accepted, also when a generation was running at
\* the clear: while no generate or clear request is being handled, no step
\* takes the state out of the cleared state.
C13_StaysCleared ==
    [][(ClearedState /\ \A q \in Requests : ~Handling(q)) => ClearedState']_vars

\* C14 as stated: in every reachable state, generation_status = 'success'
\* implies that current_post_data is set.
C14_SuccessHasPost == generation_status = "success" => Truthy(current_post_data)

\* C16 as stated: what /api/status answers has a status among 'ready',
\* 'generating', 'success', 'error', a progress of 100 exactly when the status
\* is 'success', of 0 when it is 'ready' or 'error', and of 0, 25 or 75 when
\* it is 'generating'.
C16_StatusAndProgress ==
    \A q \in Requests :
        (reqResp[q] = "200 status") =>
            LET seen == reqSeen[q]
            IN  /\ seen.status \in {"ready", "generating", "success", "error"}
                /\ (seen.progress = 100) = (seen.status = "success")
                /\ seen.status \in {"ready", "error"} => seen.progress = 0
                /\ seen.status = "generating" => seen.progress \in {0, 25, 75}

\* C17: the stored post changes only when a thread keeps the post it has
\* generated, which is then a post, or when /api/clear removes it: no other
\* step changes current_post_data, not the acceptance of an /api/generate
\* request and not a generation that fails; and /api/post answers with the
\* post stored when it reads it, whatever the status, and answers 'No post
\* data available' only when none is stored.
C17_PostFrame ==
    [][/\ current_post_data' # current_post_data =>
             \/ \E t \in Threads :
                  /\ webPc[t] = "store" /\ webPc'[t] = "ok_status"
                  /\ Truthy(webPost[t])
                  /\ current_post_data' = webPost[t]
             \/ \E q \in Requests :
                  /\ reqPc[q] = "clr_post" /\ reqPc'[q] = "clr_status"
                  /\ current_post_data' = NoneVal
       /\ \A q \in Requests :
             /\ (reqPc[q] = "pst_data" /\ reqPc'[q] = "idle") =>
                    (reqResp'[q] = "200 post" /\ reqSeen'[q].post = current_post_data)
             /\ (reqPc[q] = "pst_check" /\ reqPc'[q] = "idle") =>
                    (reqResp'[q] = "200 no post" /\ ~Truthy(current_post_data))]_vars

C17_Witness ==
    /\ generation_status = "error"
    /\ current_post_data = PostFull
    /\ \E t \in Threads : webPc[t] = "done_no_post"
    /\ \E q \in Requests : reqResp[q] = "200 post" /\ reqSeen[q].post = PostFull

\* no thread is running and no handler is between its assignment of
\* 'generating' and the start of its thread
Quiet ==
    /\ ActiveThreads = {}
    /\ \A q \in Requests : reqPc[q] \notin {"gen_message", "gen_progress", "gen_start"}

\* the thread t has just assigned its last status
StatusSet(t) ==
    /\ webPc[t] \in {"no_articles_message", "no_post_message", "ok_message"}
    /\ generation_status \in {"success", "error"}

\* C15: every accepted /api/generate request gets its thread started; every
\* thread, the fetch and the LLM call returning or raising, sets
\* generation_status to 'success' or 'error' and then ends; and the status is
\* not 'generating' when no thread is running.
C15_LeavesGenerating ==
    /\ [](Quiet => generation_status # "generating")
    /\ \A q \in LiveClients : (reqPc[q] = "gen_status") ~> (reqResp[q] = "200 started")
    /\ \A t \in LiveThreads : (webPc[t] = "set_status") ~> StatusSet(t)
    /\ \A t \in LiveThreads : ThreadActive(t) ~> (webPc[t] \in ThreadDone)

C15_Witness ==
    /\ Quiet
    /\ generation_status = "error"
    /\ reqResp[1] = "200 started"
    /\ \E t \in Threads : webPc[t] = "done_no_post"

====
